---- MODULE Spec2Model ----
(***************************************************************************)
(* A model of devconsul's topology synthesis (topology.go) and of the      *)
(* artifact generation built on it (gen.go).                               *)
(*                                                                         *)
(* Go strings that the code concatenates, parses, compares or sorts are    *)
(* sequences of one-character strings, so that concatenation, strconv.Atoi,*)
(* strconv.Itoa, the datacenter name pattern and the byte-wise order of    *)
(* sort.Strings / sort.Slice are computed rather than assumed.  Strings    *)
(* that are only compared for equality against literals (the network shape *)
(* selector, error kinds, artifact paths) are TLA+ strings.                *)
(***************************************************************************)
EXTENDS Integers, Sequences, FiniteSets, TLC

\* ------------------------------------------------------------------ bounds

MaxServers == 2
MaxClients == 2
MaxDCs == 2

\* ----------------------------------------------------------------- strings

\* The characters used, in ascending byte (ASCII) order.
Alphabet ==
    << "-", ".", "0", "1", "2", "3", "4", "5", "6", "7", "8", "9", ":",
       "a", "b", "c", "d", "e", "f", "g", "h", "i", "j", "k", "l", "m",
       "n", "o", "p", "q", "r", "s", "t", "u", "v", "w", "x", "y", "z" >>

Ord == [c \in {Alphabet[i] : i \in 1..Len(Alphabet)} |->
          CHOOSE i \in 1..Len(Alphabet) : Alphabet[i] = c]

Digits == <<"0", "1", "2", "3", "4", "5", "6", "7", "8", "9">>

IsDigit(c) == \E i \in 1..10 : Digits[i] = c

DigitVal(c) == (CHOOSE i \in 1..10 : Digits[i] = c) - 1

\* Go's < on strings: byte-wise lexicographic, a proper prefix is smaller.
RECURSIVE StrLess(_, _)
StrLess(a, b) ==
    IF b = <<>> THEN FALSE
    ELSE IF a = <<>> THEN TRUE
    ELSE IF Ord[Head(a)] < Ord[Head(b)] THEN TRUE
    ELSE IF Ord[Head(a)] > Ord[Head(b)] THEN FALSE
    ELSE StrLess(Tail(a), Tail(b))

StrLeq(a, b) == a = b \/ StrLess(a, b)

\* strconv.Itoa for n >= 0.
RECURSIVE Itoa(_)
Itoa(n) == IF n < 10 THEN <<Digits[n + 1]>>
           ELSE Itoa(n \div 10) \o <<Digits[(n % 10) + 1]>>

RECURSIVE StripZeros(_)
StripZeros(s) == IF Len(s) > 1 /\ Head(s) = "0" THEN StripZeros(Tail(s)) ELSE s

RECURSIVE DigitsValue(_)
DigitsValue(s) == IF s = <<>> THEN 0
                  ELSE 10 * DigitsValue(SubSeq(s, 1, Len(s) - 1)) + DigitVal(s[Len(s)])

\* math.MaxInt64 in decimal; int is 64 bits wide.
MaxIntDigits ==
    << "9", "2", "2", "3", "3", "7", "2", "0", "3", "6", "8", "5", "4", "7",
       "7", "5", "8", "0", "7" >>

\* strconv.Atoi on a string of decimal digits: an out-of-range error when the
\* value exceeds the int range, the value otherwise (leading zeros are read).
AtoiFails(s) ==
    LET z == StripZeros(s)
    IN  \/ Len(z) > Len(MaxIntDigits)
        \/ Len(z) = Len(MaxIntDigits) /\ StrLess(MaxIntDigits, z)

Atoi(s) == DigitsValue(StripZeros(s))

\* --------------------------------------------------------------- literals

S_lan == <<"l", "a", "n">>
S_wan == <<"w", "a", "n">>
S_dot == <<".">>
S_server == <<"-", "s", "e", "r", "v", "e", "r">>
S_client == <<"-", "c", "l", "i", "e", "n", "t">>
S_ping == <<"p", "i", "n", "g">>
S_pong == <<"p", "o", "n", "g">>
S_10_0 == <<"1", "0", ".", "0", ".">>
S_10_1 == <<"1", "0", ".", "1", ".">>

PrimaryDC == <<"d", "c", "1">>

NetworkShapeDual == "dual"
NetworkShapeFlat == "flat"

\* The nil *Topology, the nil error, the nil *Service.
Nil == [nil |-> TRUE]

\* ------------------------------------------------------------ topology.go

\* NetworkShape.GetNetworkName; the default branch panics.
GetNetworkNamePanics(s) == s \notin {NetworkShapeDual, NetworkShapeFlat}

GetNetworkName(s, dc) == IF s = NetworkShapeDual THEN dc ELSE S_lan

\* The switch on uc.Topology.NetworkShape at the top of InferTopology.
ShapeSupported(raw) == raw \in {"dual", "flat", ""}

\* The shape taken over from the configuration as it is written.
ParseShape_Raw(raw) == raw

ParseShape(raw) == IF raw = "dual" THEN NetworkShapeDual ELSE NetworkShapeFlat

\* regexp `^dc([0-9]+)$`
MatchesDCPatt(dc) ==
    /\ Len(dc) >= 3
    /\ dc[1] = "d"
    /\ dc[2] = "c"
    /\ \A i \in 3..Len(dc) : IsDigit(dc[i])

DCDigits(dc) == SubSeq(dc, 3, Len(dc))

\* The zero value of userConfigTopologyNodeConfig.
ZeroNodeConfig ==
    [MeshGateway |-> FALSE, UseBuiltinProxy |-> FALSE,
     UpstreamName |-> <<>>, UpstreamDatacenter |-> <<>>]

\* The closure addNode: the node table is keyed by name, the name is appended
\* to the servers or to the clients list.
addNode(t, node) ==
    [t EXCEPT
       !.nm = [k \in (DOMAIN t.nm) \cup {node.Name} |->
                 IF k = node.Name THEN node ELSE t.nm[k]],
       !.servers = IF node.Server THEN Append(t.servers, node.Name) ELSE t.servers,
       !.clients = IF node.Server THEN t.clients ELSE Append(t.clients, node.Name)]

\* The suffix of a server's addresses in forDC.
ServerSuffix(idx) == 10 + idx

\* The client suffix that follows on the servers' suffixes.
ClientSuffix_AfterServers(idx) == 11 + idx

\* The suffix of a client's addresses in forDC.
ClientSuffix(idx) == 20 + idx

\* The node the first loop of forDC builds for idx.
ServerNode(shape, dc, baseIP, wanBaseIP, idx) ==
    LET ip == baseIP \o S_dot \o Itoa(ServerSuffix(idx))
        wanIP == wanBaseIP \o S_dot \o Itoa(ServerSuffix(idx))
        local == <<[Network |-> GetNetworkName(shape, dc), IPAddress |-> ip]>>
    IN  [Datacenter |-> dc,
         Name |-> dc \o S_server \o Itoa(idx),
         Server |-> TRUE,
         Addresses |-> IF shape = NetworkShapeDual
                       THEN Append(local, [Network |-> S_wan, IPAddress |-> wanIP])
                       ELSE local,
         Service |-> Nil,
         MeshGateway |-> FALSE,
         UseBuiltinProxy |-> FALSE,
         Index |-> idx - 1]

\* The Service a plain client carries.
ClientService(nodeConfig, idx) ==
    [Name |-> IF idx % 2 = 1 THEN S_ping ELSE S_pong,
     Port |-> 8080,
     UpstreamName |-> IF nodeConfig.UpstreamName # <<>> THEN nodeConfig.UpstreamName
                      ELSE IF idx % 2 = 1 THEN S_pong ELSE S_ping,
     UpstreamDatacenter |-> nodeConfig.UpstreamDatacenter,
     UpstreamLocalPort |-> 9090]

\* The client node with a Service also when it is a mesh gateway.
ClientNode_KeepService(shape, nodeConfigs, dc, baseIP, wanBaseIP, idx) ==
    LET ip == baseIP \o S_dot \o Itoa(ClientSuffix(idx))
        wanIP == wanBaseIP \o S_dot \o Itoa(ClientSuffix(idx))
        nodeName == dc \o S_client \o Itoa(idx)
        nodeConfig == IF nodeName \in DOMAIN nodeConfigs
                      THEN nodeConfigs[nodeName] ELSE ZeroNodeConfig
        local == <<[Network |-> GetNetworkName(shape, dc), IPAddress |-> ip]>>
    IN  [Datacenter |-> dc,
         Name |-> nodeName,
         Server |-> FALSE,
         Addresses |-> IF nodeConfig.MeshGateway /\ shape = NetworkShapeDual
                       THEN Append(local, [Network |-> S_wan, IPAddress |-> wanIP])
                       ELSE local,
         Service |-> ClientService(nodeConfig, idx),
         MeshGateway |-> nodeConfig.MeshGateway,
         UseBuiltinProxy |-> nodeConfig.UseBuiltinProxy,
         Index |-> idx - 1]

\* The node the second loop of forDC builds for idx.
ClientNode(shape, nodeConfigs, dc, baseIP, wanBaseIP, idx) ==
    LET ip == baseIP \o S_dot \o Itoa(ClientSuffix(idx))
        wanIP == wanBaseIP \o S_dot \o Itoa(ClientSuffix(idx))
        nodeName == dc \o S_client \o Itoa(idx)
        nodeConfig == IF nodeName \in DOMAIN nodeConfigs
                      THEN nodeConfigs[nodeName] ELSE ZeroNodeConfig
        local == <<[Network |-> GetNetworkName(shape, dc), IPAddress |-> ip]>>
    IN  [Datacenter |-> dc,
         Name |-> nodeName,
         Server |-> FALSE,
         Addresses |-> IF nodeConfig.MeshGateway /\ shape = NetworkShapeDual
                       THEN Append(local, [Network |-> S_wan, IPAddress |-> wanIP])
                       ELSE local,
         Service |-> IF nodeConfig.MeshGateway THEN Nil
                     ELSE ClientService(nodeConfig, idx),
         MeshGateway |-> nodeConfig.MeshGateway,
         UseBuiltinProxy |-> ~nodeConfig.MeshGateway /\ nodeConfig.UseBuiltinProxy,
         Index |-> idx - 1]

RECURSIVE forDCServers(_, _, _, _)
forDCServers(t, dc, idx, servers) ==
    IF idx > servers THEN t
    ELSE forDCServers(
           addNode(t, ServerNode(t.NetworkShape, dc.Name, dc.BaseIP, dc.WANBaseIP, idx)),
           dc, idx + 1, servers)

RECURSIVE forDCClients(_, _, _, _, _)
forDCClients(t, nodeConfigs, dc, idx, clients) ==
    IF idx > clients THEN t
    ELSE forDCClients(
           addNode(t, ClientNode(t.NetworkShape, nodeConfigs, dc.Name, dc.BaseIP,
                                 dc.WANBaseIP, idx)),
           nodeConfigs, dc, idx + 1, clients)

\* forDC with loops that count from 0.
forDC_ZeroBased(t, nodeConfigs, dc) ==
    forDCClients(forDCServers(t, dc, 0, dc.Servers - 1), nodeConfigs, dc, 0, dc.Clients - 1)

\* The closure forDC: servers 1..servers, then clients 1..clients.
forDC(t, nodeConfigs, dc) ==
    forDCClients(forDCServers(t, dc, 1, dc.Servers), nodeConfigs, dc, 1, dc.Clients)

\* The Datacenter with the local prefix as its WAN prefix.
MakeDatacenter_SharedPrefix(dc, v) ==
    LET i == Atoi(DCDigits(dc))
    IN  [Name |-> dc, Primary |-> dc = PrimaryDC, Index |-> i,
         Servers |-> v.Servers, Clients |-> v.Clients,
         BaseIP |-> S_10_0 \o Itoa(i), WANBaseIP |-> S_10_0 \o Itoa(i)]

\* The Datacenter appended for a validated entry of the map.
MakeDatacenter(dc, v) ==
    LET i == Atoi(DCDigits(dc))
    IN  [Name |-> dc, Primary |-> dc = PrimaryDC, Index |-> i,
         Servers |-> v.Servers, Clients |-> v.Clients,
         BaseIP |-> S_10_0 \o Itoa(i), WANBaseIP |-> S_10_1 \o Itoa(i)]

\* The checks with the counts compared by < instead of <=.
DCError_CountBelowZero(dc, v) ==
    IF v.Servers < 0 THEN [kind |-> "no server", dc |-> dc]
    ELSE IF v.Clients < 0 THEN [kind |-> "no client", dc |-> dc]
    ELSE IF ~MatchesDCPatt(dc) THEN [kind |-> "invalid name", dc |-> dc]
    ELSE IF AtoiFails(DCDigits(dc)) THEN [kind |-> "invalid name", dc |-> dc]
    ELSE Nil

\* The checks of one entry of the range loop over t.Datacenters, in the
\* order the loop makes them; Nil when the entry passes.
DCError(dc, v) ==
    IF v.Servers <= 0 THEN [kind |-> "no server", dc |-> dc]
    ELSE IF v.Clients <= 0 THEN [kind |-> "no client", dc |-> dc]
    ELSE IF ~MatchesDCPatt(dc) THEN [kind |-> "invalid name", dc |-> dc]
    ELSE IF AtoiFails(DCDigits(dc)) THEN [kind |-> "invalid name", dc |-> dc]
    ELSE Nil

\* The range loop over t.Datacenters, visiting the keys in the order `order`:
\* the first failing entry ends it.
RECURSIVE RangeDatacenters(_, _, _, _)
RangeDatacenters(datacenters, order, i, dcs) ==
    IF i > Len(order) THEN [err |-> Nil, dcs |-> dcs]
    ELSE LET dc == order[i]
             e == DCError(dc, datacenters[dc])
         IN  IF e # Nil THEN [err |-> e, dcs |-> dcs]
             ELSE RangeDatacenters(datacenters, order, i + 1,
                                   Append(dcs, MakeDatacenter(dc, datacenters[dc])))

\* sort.Slice(topology.dcs, Name <): the names are the keys of a map, hence
\* distinct, and the result is the one ascending arrangement.
RECURSIVE InsertDC(_, _)
InsertDC(sorted, d) ==
    IF sorted = <<>> THEN <<d>>
    ELSE IF StrLess(d.Name, Head(sorted).Name) THEN <<d>> \o sorted
    ELSE <<Head(sorted)>> \o InsertDC(Tail(sorted), d)

RECURSIVE SortDCsFrom(_, _)
SortDCsFrom(dcs, acc) ==
    IF dcs = <<>> THEN acc ELSE SortDCsFrom(Tail(dcs), InsertDC(acc, Head(dcs)))

\* The datacenters left in the order the range loop appended them.
SortDCs_None(dcs) == dcs

SortDCs(dcs) == SortDCsFrom(dcs, <<>>)

RECURSIVE forAllDCs(_, _, _, _)
forAllDCs(t, nodeConfigs, dcs, i) ==
    IF i > Len(dcs) THEN t
    ELSE forAllDCs(forDC(t, nodeConfigs, dcs[i]), nodeConfigs, dcs, i + 1)

\* A panic inside InferTopology: a configuration that passes every check
\* reaches forDC, whose first server calls GetNetworkName and then switches on
\* the shape; a shape that is neither dual nor flat panics there.
InferTopologyPanics(uc, order) ==
    /\ ShapeSupported(uc.NetworkShape)
    /\ PrimaryDC \in DOMAIN uc.Datacenters
    /\ RangeDatacenters(uc.Datacenters, order, 1, <<>>).err = Nil
    /\ GetNetworkNamePanics(ParseShape(uc.NetworkShape))

\* InferTopology(uc), the map uc.Topology.Datacenters enumerated in `order`.
InferTopology(uc, order) ==
    IF ~ShapeSupported(uc.NetworkShape)
    THEN [topology |-> Nil, err |-> [kind |-> "unknown network_shape"]]
    ELSE IF PrimaryDC \notin DOMAIN uc.Datacenters
    THEN [topology |-> Nil, err |-> [kind |-> "primary datacenter missing"]]
    ELSE LET r == RangeDatacenters(uc.Datacenters, order, 1, <<>>)
         IN  IF r.err # Nil THEN [topology |-> Nil, err |-> r.err]
             ELSE LET t0 == [servers |-> <<>>, clients |-> <<>>, nm |-> <<>>,
                             dcs |-> SortDCs(r.dcs),
                             NetworkShape |-> ParseShape(uc.NetworkShape)]
                  IN  [topology |-> forAllDCs(t0, uc.NodeConfig, t0.dcs, 1),
                       err |-> Nil]

\* Topology.Node: the node named name; a name not in the table panics.
NodePanics(t, name) == name \notin DOMAIN t.nm

Node(t, name) == t.nm[name]

\* Node.LocalAddress: the first address on the node's datacenter network or on
\* "lan"; none panics.
IsLocalNetwork(n, a) == a.Network = n.Datacenter \/ a.Network = S_lan

LocalAddressPanics(n) ==
    ~\E i \in 1..Len(n.Addresses) : IsLocalNetwork(n, n.Addresses[i])

\* LocalAddress returning the last address of the node.
LocalAddress_Last(n) == n.Addresses[Len(n.Addresses)].IPAddress

LocalAddress(n) ==
    LET i == CHOOSE i \in 1..Len(n.Addresses) :
                 /\ IsLocalNetwork(n, n.Addresses[i])
                 /\ \A j \in 1..(i - 1) : ~IsLocalNetwork(n, n.Addresses[j])
    IN  n.Addresses[i].IPAddress

\* Node.PublicAddress: the first address on "wan"; none panics.
PublicAddressPanics(n) ==
    ~\E i \in 1..Len(n.Addresses) : n.Addresses[i].Network = S_wan

PublicAddress(n) ==
    LET i == CHOOSE i \in 1..Len(n.Addresses) :
                 /\ n.Addresses[i].Network = S_wan
                 /\ \A j \in 1..(i - 1) : n.Addresses[j].Network # S_wan
    IN  n.Addresses[i].IPAddress

\* The scan keeping the last server of the datacenter instead of the first.
FirstServerOf_Last(t, datacenter) ==
    IF \E i \in 1..Len(t.servers) : Node(t, t.servers[i]).Datacenter = datacenter
    THEN CHOOSE i \in 1..Len(t.servers) :
           /\ Node(t, t.servers[i]).Datacenter = datacenter
           /\ \A j \in (i + 1)..Len(t.servers) : Node(t, t.servers[j]).Datacenter # datacenter
    ELSE 0

\* The scan of t.servers that LeaderIP and WANLeaderIP share: the position of
\* the first server of the datacenter, 0 when there is none ("no such dc").
FirstServerOf(t, datacenter) ==
    IF \E i \in 1..Len(t.servers) : Node(t, t.servers[i]).Datacenter = datacenter
    THEN CHOOSE i \in 1..Len(t.servers) :
           /\ Node(t, t.servers[i]).Datacenter = datacenter
           /\ \A j \in 1..(i - 1) : Node(t, t.servers[j]).Datacenter # datacenter
    ELSE 0

\* Topology.LeaderIP
LeaderIPPanics(t, datacenter) ==
    \/ FirstServerOf(t, datacenter) = 0
    \/ LocalAddressPanics(Node(t, t.servers[FirstServerOf(t, datacenter)]))

LeaderIP(t, datacenter) ==
    LocalAddress(Node(t, t.servers[FirstServerOf(t, datacenter)]))

\* Topology.WANLeaderIP
WANLeaderIPPanics(t, datacenter) ==
    \/ FirstServerOf(t, datacenter) = 0
    \/ PublicAddressPanics(Node(t, t.servers[FirstServerOf(t, datacenter)]))

WANLeaderIP(t, datacenter) ==
    PublicAddress(Node(t, t.servers[FirstServerOf(t, datacenter)]))

\* Topology.LeaderIP_new
LeaderIP_newPanics(t, datacenter, wan) ==
    IF wan THEN WANLeaderIPPanics(t, datacenter) ELSE LeaderIPPanics(t, datacenter)

LeaderIP_new(t, datacenter, wan) ==
    IF wan THEN WANLeaderIP(t, datacenter) ELSE LeaderIP(t, datacenter)

\* Topology.ServerIPs
RECURSIVE ServerIPsFrom(_, _, _)
ServerIPsFrom(t, datacenter, i) ==
    IF i > Len(t.servers) THEN <<>>
    ELSE LET n == Node(t, t.servers[i])
         IN  (IF n.Datacenter = datacenter THEN <<LocalAddress(n)>> ELSE <<>>)
             \o ServerIPsFrom(t, datacenter, i + 1)

ServerIPs(t, datacenter) == ServerIPsFrom(t, datacenter, 1)

\* Topology.all
all(t) == t.servers \o t.clients

\* The nodes Topology.Walk and Topology.WalkSilent hand to their callback, in
\* order.
Walk(t) == LET names == all(t) IN [i \in 1..Len(names) |-> Node(t, names[i])]

\* ------------------------------------------------------------------ gen.go

S_pod == <<"-", "p", "o", "d">>
S_dash == <<"-">>
S_sidecar == <<"-", "s", "i", "d", "e", "c", "a", "r">>
S_mesh_gateway == <<"-", "m", "e", "s", "h", "-", "g", "a", "t", "e", "w", "a", "y">>
S_proxy == <<"-", "p", "r", "o", "x", "y">>
S_consul_servers == <<"c", "o", "n", "s", "u", "l", "-", "s", "e", "r", "v", "e", "r", "s", "-">>
S_consul_clients == <<"c", "o", "n", "s", "u", "l", "-", "c", "l", "i", "e", "n", "t", "s", "-">>
S_mesh_gateways == <<"m", "e", "s", "h", "-", "g", "a", "t", "e", "w", "a", "y", "s", "-">>
S_consul_server == <<"c", "o", "n", "s", "u", "l", "-", "s", "e", "r", "v", "e", "r">>
S_consul_client == <<"c", "o", "n", "s", "u", "l", "-", "c", "l", "i", "e", "n", "t">>
S_mesh_gateway_role == <<"m", "e", "s", "h", "-", "g", "a", "t", "e", "w", "a", "y">>
S_dc == <<"d", "c">>
S_role == <<"r", "o", "l", "e">>
S_8500 == <<":", "8", "5", "0", "0">>
S_9102 == <<":", "9", "1", "0", "2">>

\* The artifacts CommandGenerate.Run persists.
ComposePath == "docker-compose.yml"
PrometheusPath == "cache/prometheus.yml"
GrafanaPaths == {"cache/grafana-prometheus.yml", "cache/grafana.ini"}
Paths == {ComposePath, PrometheusPath} \cup GrafanaPaths

\* A path with no file.
Absent == [absent |-> TRUE]

\* generateAgentHCL: the consulAgentConfigInfo the agent template is executed
\* on (the rendered text is a fixed function of it).  The shape of a built
\* topology is dual or flat; the islands case and the default case of the
\* switch are the panic outcome.
generateAgentHCLPanics(t, node) ==
    \/ LocalAddressPanics(node)
    \/ /\ node.Server
       /\ \/ GetNetworkNamePanics(t.NetworkShape)
          \/ t.NetworkShape = NetworkShapeDual /\ PublicAddressPanics(node)
          \/ \E i \in 1..Len(t.dcs) :
               LeaderIP_newPanics(t, t.dcs[i].Name, t.NetworkShape = NetworkShapeDual)

generateAgentHCL(t, node) ==
    LET wanIP == t.NetworkShape = NetworkShapeDual
    IN  [AdvertiseAddr |-> LocalAddress(node),
         AdvertiseAddrWAN |-> IF node.Server /\ wanIP THEN PublicAddress(node) ELSE <<>>,
         RetryJoin |-> ServerIPs(t, node.Datacenter),
         RetryJoinWAN |-> IF node.Server
                          THEN [i \in 1..Len(t.dcs) |-> LeaderIP_new(t, t.dcs[i].Name, wanIP)]
                          ELSE <<>>,
         Datacenter |-> node.Datacenter,
         Server |-> node.Server,
         SecondaryServer |-> node.Server /\ node.Datacenter # PrimaryDC,
         BootstrapExpect |-> IF node.Server THEN Len(ServerIPs(t, node.Datacenter)) ELSE 0,
         TLSFilePrefixIndex |-> node.Index]

\* generateMeshGatewayYAML panics in the default case of its switch on the
\* shape.
generateMeshGatewayYAMLPanics(t, node) ==
    node.MeshGateway /\ GetNetworkNamePanics(t.NetworkShape)

\* generateMeshGatewayYAML: the compose service of a mesh gateway node, none
\* for any other node.
generateMeshGatewayYAML(t, podName, node) ==
    IF ~node.MeshGateway THEN <<>>
    ELSE << [Name |-> node.Name \o S_mesh_gateway,
             Kind |-> "gateway",
             NetworkMode |-> podName,
             DependsOn |-> <<node.Name>>,
             Args |-> [EnableWAN |-> t.NetworkShape = NetworkShapeDual,
                       ExposeServers |-> t.NetworkShape = NetworkShapeDual]] >>

\* generatePingPongYAML fails on a service that is neither ping nor pong.
generatePingPongYAMLFails(node) ==
    node.Service # Nil /\ node.Service.Name \notin {S_ping, S_pong}

\* generatePingPongYAML: the application and the sidecar compose services of a
\* node carrying a Service, none for any other node.
generatePingPongYAML(podName, node) ==
    IF node.Service = Nil THEN <<>>
    ELSE << [Name |-> node.Name \o S_dash \o node.Service.Name,
             Kind |-> "app",
             NetworkMode |-> podName,
             DependsOn |-> <<node.Name>>,
             Args |-> [PingPong |-> node.Service.Name]],
            [Name |-> node.Name \o S_dash \o node.Service.Name \o S_sidecar,
             Kind |-> "sidecar",
             NetworkMode |-> podName,
             DependsOn |-> <<node.Name \o S_dash \o node.Service.Name>>,
             Args |-> [PingPong |-> node.Service.Name,
                       UseBuiltinProxy |-> node.UseBuiltinProxy]] >>

\* The depends_on list without the test for a server.
AgentDependsOn_NoServerCheck(podName, node) ==
    <<podName, node.Datacenter \o S_server \o <<"1">>>>

\* The depends_on list of a node's agent container.
AgentDependsOn(podName, node) ==
    IF ~node.Server THEN <<podName, node.Datacenter \o S_server \o <<"1">>>>
    ELSE <<podName>>

\* The callback generateComposeFile hands to Walk: the compose services one
\* node contributes, in the order the template writes them.
composePod(t, node) ==
    LET podName == node.Name \o S_pod
    IN  << [Name |-> podName,
            Kind |-> "pod",
            NetworkMode |-> <<>>,
            DependsOn |-> <<>>,
            Args |-> [Addresses |-> node.Addresses]],
           [Name |-> node.Name,
            Kind |-> "consul",
            NetworkMode |-> podName,
            DependsOn |-> AgentDependsOn(podName, node),
            Args |-> [HCL |-> generateAgentHCL(t, node)]] >>
        \o generateMeshGatewayYAML(t, podName, node)
        \o generatePingPongYAML(podName, node)

RECURSIVE composeServicesFrom(_, _, _)
composeServicesFrom(t, nodes, i) ==
    IF i > Len(nodes) THEN <<>>
    ELSE composePod(t, nodes[i]) \o composeServicesFrom(t, nodes, i + 1)

\* A panic while generateComposeFile walks the topology.
generateComposeFilePanics(t) ==
    LET names == all(t)
    IN  \E i \in 1..Len(names) :
            \/ NodePanics(t, names[i])
            \/ generateAgentHCLPanics(t, Node(t, names[i]))
            \/ generateMeshGatewayYAMLPanics(t, Node(t, names[i]))

\* An error returned by the callback of generateComposeFile.
generateComposeFileFails(t) ==
    LET names == all(t)
    IN  \E i \in 1..Len(names) : generatePingPongYAMLFails(Node(t, names[i]))

\* generateComposeFile: what dockerComposeT is executed on.
composeInfo(config, t) ==
    [PrometheusEnabled |-> config.PrometheusEnabled,
     Volumes |-> all(t),
     Services |-> composeServicesFrom(t, Walk(t), 1)]

\* sort.Strings
RECURSIVE InsertString(_, _)
InsertString(sorted, x) ==
    IF sorted = <<>> THEN <<x>>
    ELSE IF StrLess(x, Head(sorted)) THEN <<x>> \o sorted
    ELSE <<Head(sorted)>> \o InsertString(Tail(sorted), x)

RECURSIVE SortStringsFrom(_, _)
SortStringsFrom(xs, acc) ==
    IF xs = <<>> THEN acc ELSE SortStringsFrom(Tail(xs), InsertString(acc, Head(xs)))

SortStrings(xs) == SortStringsFrom(xs, <<>>)

\* sort.Slice(j.Labels, Key <)
RECURSIVE InsertLabel(_, _)
InsertLabel(sorted, l) ==
    IF sorted = <<>> THEN <<l>>
    ELSE IF StrLess(l.Key, Head(sorted).Key) THEN <<l>> \o sorted
    ELSE <<Head(sorted)>> \o InsertLabel(Tail(sorted), l)

RECURSIVE SortLabelsFrom(_, _)
SortLabelsFrom(ls, acc) ==
    IF ls = <<>> THEN acc ELSE SortLabelsFrom(Tail(ls), InsertLabel(acc, Head(ls)))

SortLabels(ls) == SortLabelsFrom(ls, <<>>)

\* sort.Slice(info.Jobs, Name <): the names are the keys of a map, hence
\* distinct.
RECURSIVE InsertJob(_, _)
InsertJob(sorted, j) ==
    IF sorted = <<>> THEN <<j>>
    ELSE IF StrLess(j.Name, Head(sorted).Name) THEN <<j>> \o sorted
    ELSE <<Head(sorted)>> \o InsertJob(Tail(sorted), j)

RECURSIVE SortJobsFrom(_, _)
SortJobsFrom(js, acc) ==
    IF js = <<>> THEN acc ELSE SortJobsFrom(Tail(js), InsertJob(acc, Head(js)))

SortJobs(js) == SortJobsFrom(js, <<>>)

\* add replacing a job that is already in the map.
add_Overwrite(jobs, j) ==
    [k \in (DOMAIN jobs) \cup {j.Name} |->
       IF k = j.Name
       THEN [j EXCEPT !.Labels = SortLabels(j.Labels), !.Targets = SortStrings(j.Targets)]
       ELSE jobs[k]]

\* The closure add of generatePrometheusConfigFile: jobs is the map from job
\* name to job.
add(jobs, j) ==
    IF j.Name \in DOMAIN jobs
    THEN [jobs EXCEPT ![j.Name].Targets = SortStrings(@ \o j.Targets)]
    ELSE [k \in (DOMAIN jobs) \cup {j.Name} |->
            IF k = j.Name
            THEN [j EXCEPT !.Labels = SortLabels(j.Labels),
                           !.Targets = SortStrings(j.Targets)]
            ELSE jobs[k]]

\* The job a node is scraped under as a consul agent.
agentJob(node) ==
    [Name |-> (IF node.Server THEN S_consul_servers ELSE S_consul_clients)
              \o node.Datacenter,
     MetricsPath |-> "/v1/agent/metrics",
     Targets |-> <<LocalAddress(node) \o S_8500>>,
     Labels |-> << [Key |-> S_dc, Val |-> node.Datacenter],
                   [Key |-> S_role,
                    Val |-> IF node.Server THEN S_consul_server ELSE S_consul_client] >>]

\* The job a mesh gateway node is scraped under.
meshGatewayJob(node) ==
    [Name |-> S_mesh_gateways \o node.Datacenter,
     MetricsPath |-> "/metrics",
     Targets |-> <<LocalAddress(node) \o S_9102>>,
     Labels |-> << [Key |-> S_dc, Val |-> node.Datacenter],
                   [Key |-> S_role, Val |-> S_mesh_gateway_role] >>]

\* The job the sidecar proxy of a node's service is scraped under.
proxyJob(node) ==
    [Name |-> node.Service.Name \o S_proxy,
     MetricsPath |-> "/metrics",
     Targets |-> <<LocalAddress(node) \o S_9102>>,
     Labels |-> << [Key |-> S_dc, Val |-> node.Datacenter],
                   [Key |-> S_role, Val |-> node.Service.Name \o S_proxy] >>]

\* The callback generatePrometheusConfigFile hands to Walk.
addNodeJobs(jobs, node) ==
    IF node.Server THEN add(jobs, agentJob(node))
    ELSE IF node.MeshGateway THEN add(add(jobs, agentJob(node)), meshGatewayJob(node))
    ELSE IF node.Service # Nil THEN add(add(jobs, agentJob(node)), proxyJob(node))
    ELSE add(jobs, agentJob(node))

RECURSIVE walkJobs(_, _, _)
walkJobs(jobs, nodes, i) ==
    IF i > Len(nodes) THEN jobs ELSE walkJobs(addNodeJobs(jobs, nodes[i]), nodes, i + 1)

\* The map jobs after the walk of generatePrometheusConfigFile.
prometheusJobs(t) == walkJobs(<<>>, Walk(t), 1)

\* A panic while generatePrometheusConfigFile walks the topology.
generatePrometheusConfigFilePanics(t) ==
    LET names == all(t)
    IN  \E i \in 1..Len(names) :
            NodePanics(t, names[i]) \/ LocalAddressPanics(Node(t, names[i]))

\* The jobs left in the order the map was enumerated in.
prometheusInfo_Unsorted(jobs, order) ==
    [Jobs |-> [i \in 1..Len(order) |-> jobs[order[i]]]]

\* generatePrometheusConfigFile: what prometheusConfigT is executed on, the
\* map jobs enumerated in `order`.
prometheusInfo(jobs, order) ==
    [Jobs |-> SortJobs([i \in 1..Len(order) |-> jobs[order[i]]])]

\* The fixed bodies of generateGrafanaConfigFiles.
grafanaBody(path) == [grafana |-> path]

\* updateFileIfDifferent with a write that fails after the file was replaced.
updateFileIfDifferent_WriteThenFail(fs, body, path, io) ==
    IF io = "read error"
    THEN [fs |-> fs, err |-> [kind |-> "persistence", path |-> path], wrote |-> {}]
    ELSE IF fs[path] # Absent /\ fs[path] = body THEN [fs |-> fs, err |-> Nil, wrote |-> {}]
    ELSE [fs |-> [fs EXCEPT ![path] = body],
          err |-> IF io = "write error" THEN [kind |-> "persistence", path |-> path]
                  ELSE Nil,
          wrote |-> {path}]

\* updateFileIfDifferent(body, path), the file system answering with `io`:
\* "read error" for a failure of ReadFile other than a missing file,
\* "write error" for a failure of safeio.WriteToFile (which leaves the file as
\* it was), "ok" for neither.
updateFileIfDifferent(fs, body, path, io) ==
    IF io = "read error"
    THEN [fs |-> fs, err |-> [kind |-> "persistence", path |-> path], wrote |-> {}]
    ELSE IF fs[path] # Absent /\ fs[path] = body THEN [fs |-> fs, err |-> Nil, wrote |-> {}]
    ELSE IF io = "write error"
    THEN [fs |-> fs, err |-> [kind |-> "persistence", path |-> path], wrote |-> {}]
    ELSE [fs |-> [fs EXCEPT ![path] = body], err |-> Nil, wrote |-> {path}]

\* generateGrafanaConfigFiles, the map files enumerated in `order`.
RECURSIVE generateGrafanaConfigFilesFrom(_, _, _, _, _, _)
generateGrafanaConfigFilesFrom(fs, order, i, io, wrote, produced) ==
    IF i > Len(order) THEN [fs |-> fs, err |-> Nil, wrote |-> wrote, produced |-> produced]
    ELSE LET path == order[i]
             u == updateFileIfDifferent(fs, grafanaBody(path), path, io[path])
             p == produced @@ (path :> grafanaBody(path))
         IN  IF u.err # Nil
             THEN [fs |-> u.fs, err |-> u.err, wrote |-> wrote, produced |-> p]
             ELSE generateGrafanaConfigFilesFrom(u.fs, order, i + 1, io,
                                                 wrote \cup u.wrote, p)

generateGrafanaConfigFiles(fs, order, io) ==
    generateGrafanaConfigFilesFrom(fs, order, 1, io, {}, <<>>)

\* The verbose walk at the top of Run: what the callback logs per node.
verboseLog(t) ==
    LET nodes == Walk(t)
    IN  [i \in 1..Len(nodes) |->
           [name |-> nodes[i].Name, server |-> nodes[i].Server,
            dc |-> nodes[i].Datacenter, ip |-> LocalAddress(nodes[i])]]

verboseLogPanics(t) ==
    LET names == all(t)
    IN  \E i \in 1..Len(names) :
            NodePanics(t, names[i]) \/ LocalAddressPanics(Node(t, names[i]))

\* Whether the run r has returned nil.
RunOK(r) == r.step = "done" /\ r.err = Nil /\ ~r.panic

\* A run that has persisted nothing yet, about to call generateComposeFile.
\* It remembers of the run before it (prev, Nil when it is the first) how that
\* one ended and the bodies it rendered.
RunStarted(prev) ==
    [step |-> "compose", wrote |-> {}, produced |-> <<>>, err |-> Nil,
     panic |-> FALSE,
     prev |-> IF prev = Nil THEN "none" ELSE IF RunOK(prev) THEN "ok" ELSE "failed",
     prevProduced |-> IF prev = Nil THEN <<>> ELSE prev.produced]

\* The run r after it returned e (Nil: success) or panicked.
RunDone(r, e, panicked) == [r EXCEPT !.step = "done", !.err = e, !.panic = panicked]

\* The run r after updateFileIfDifferent(body, path) answered u.
Persisted(r, path, body, u) ==
    [r EXCEPT !.wrote = @ \cup u.wrote, !.produced = @ @@ (path :> body)]

\* ------------------------------------------------------------------ inputs

S_dc1 == <<"d", "c", "1">>
S_dc2 == <<"d", "c", "2">>
S_dc01 == <<"d", "c", "0", "1">>
S_dc0 == <<"d", "c", "0">>
S_dx1 == <<"d", "x", "1">>
\* "dc" followed by MaxInt64 + 1
S_dcBig == <<"d", "c", "9", "2", "2", "3", "3", "7", "2", "0", "3", "6", "8",
             "5", "4", "7", "7", "5", "8", "0", "8">>

NetworkShapes == {"dual", "flat", "", "islands"}

\* The maps from at most MaxDCs of the names to a server and a client count.
DatacenterMaps(names, servers, clients) ==
    UNION {[S -> [Servers : servers, Clients : clients]] :
             S \in {T \in SUBSET names : Cardinality(T) <= MaxDCs}}

MeshGatewayConfig == [ZeroNodeConfig EXCEPT !.MeshGateway = TRUE]

ProxyConfig ==
    [ZeroNodeConfig EXCEPT !.UseBuiltinProxy = TRUE, !.UpstreamName = S_pong,
                           !.UpstreamDatacenter = S_dc2]

\* The override tables tried: none; a mesh gateway in dc1; mesh gateways in
\* two datacenters and an override keyed by a server's name; a proxy override
\* beside a mesh gateway.
NodeConfigs ==
    { <<>>,
      (S_dc1 \o S_client \o <<"1">>) :> MeshGatewayConfig,
      ((S_dc1 \o S_client \o <<"1">>) :> MeshGatewayConfig)
         @@ ((S_dc01 \o S_client \o <<"1">>) :> MeshGatewayConfig)
         @@ ((S_dc1 \o S_server \o <<"1">>) :> MeshGatewayConfig),
      ((S_dc1 \o S_client \o <<"1">>) :> ProxyConfig)
         @@ ((S_dc1 \o S_client \o <<"2">>) :> MeshGatewayConfig) }

\* Configurations for the topology and its query surface: names the pattern
\* accepts (two of them with the same index, one with index 0), positive
\* counts, every shape, every override table.
TopologyUserConfigs ==
    [NetworkShape : NetworkShapes,
     Datacenters : DatacenterMaps({S_dc1, S_dc2, S_dc01, S_dc0},
                                  1..MaxServers, 1..MaxClients),
     NodeConfig : NodeConfigs]

\* Configurations for validation: also names the pattern or Atoi rejects, and
\* counts of 0.
ValidationUserConfigs ==
    [NetworkShape : NetworkShapes,
     Datacenters : DatacenterMaps({S_dc1, S_dc2, S_dc01, S_dc0, S_dx1, S_dcBig},
                                  0..MaxServers, 0..MaxClients),
     NodeConfig : {<<>>}]

\* The datacenter maps for generation: dc1 of every size, alone or beside a
\* dc2 of MaxServers servers and one client.
GenDatacenterMaps ==
    LET sizes == [Servers : 1..MaxServers, Clients : 1..MaxClients]
    IN  {S_dc1 :> v : v \in sizes}
        \cup {(S_dc1 :> v) @@ (S_dc2 :> [Servers |-> MaxServers, Clients |-> 1]) :
                v \in sizes}

\* Configurations for generation.
GenUserConfigs ==
    [NetworkShape : {"dual", "flat"},
     Datacenters : GenDatacenterMaps,
     NodeConfig : {<<>>,
                   ((S_dc1 \o S_client \o <<"1">>) :> ProxyConfig)
                      @@ ((S_dc1 \o S_client \o <<"2">>) :> MeshGatewayConfig)}]

\* Configurations at the edge for generation: the smallest topology under the
\* empty and under an unknown shape, and maps InferTopology rejects.
GenEdgeUserConfigs ==
    [NetworkShape : {"", "islands"},
     Datacenters : {S_dc1 :> [Servers |-> 1, Clients |-> 1]},
     NodeConfig : {<<>>}]
    \cup [NetworkShape : {"dual"},
          Datacenters : {S_dx1 :> [Servers |-> 1, Clients |-> 1],
                         S_dc1 :> [Servers |-> 0, Clients |-> 1],
                         (S_dc1 :> [Servers |-> 1, Clients |-> 1])
                            @@ (S_dcBig :> [Servers |-> 1, Clients |-> 1])},
          NodeConfig : {<<>>}]

\* A file left by something else than this program.
Stale == [stale |-> TRUE]

InitialFileSystems == {[p \in Paths |-> Absent], [p \in Paths |-> Stale]}

RECURSIVE SetToSeq(_)
SetToSeq(S) ==
    IF S = {} THEN <<>>
    ELSE LET x == CHOOSE x \in S : TRUE IN <<x>> \o SetToSeq(S \ {x})

\* The orders in which a range loop may enumerate a map with the keys S: the
\* rotations of one enumeration and of its reverse (every order, for up to
\* three keys).
MapOrders(S) ==
    LET base == SetToSeq(S)
        n == Len(base)
    IN  {[i \in 1..n |-> base[((i - 1 + k) % n) + 1]] : k \in 0..(n - 1)}
        \cup {[i \in 1..n |-> base[((n - i + k) % n) + 1]] : k \in 0..(n - 1)}
        \cup {base}

\* What the file system answers one updateFileIfDifferent call with.
IOAnswers == {"ok", "read error", "write error"}

\* ------------------------------------------------------------------- state

VARIABLES
    uc,          \* the user configuration handed to InferTopology
    config,      \* the flags of the flattened configuration
    pc,          \* "start", then "built", "failed" or "panicked"
    topology,    \* the *Topology InferTopology returned, Nil before and on error
    err,         \* the error InferTopology returned, Nil before and on success
    leaders,     \* the answers LeaderIP gave so far, per datacenter asked
    visited,     \* the node names WalkSilent handed to its callback, Nil before
    fs,          \* the file system: the body at each artifact path, or Absent
    run          \* the last run of CommandGenerate.Run, in progress or done; Nil
                 \* before the first

vars == <<uc, config, pc, topology, err, leaders, visited, fs, run>>

InitRest ==
    /\ pc = "start"
    /\ topology = Nil
    /\ err = Nil
    /\ leaders = <<>>
    /\ visited = Nil
    /\ run = Nil

Init ==
    /\ uc \in TopologyUserConfigs
    /\ config = [PrometheusEnabled |-> FALSE]
    /\ fs = [p \in Paths |-> Absent]
    /\ InitRest

InitValidate ==
    /\ uc \in ValidationUserConfigs
    /\ config = [PrometheusEnabled |-> FALSE]
    /\ fs = [p \in Paths |-> Absent]
    /\ InitRest

InitGen ==
    /\ uc \in GenUserConfigs \cup GenEdgeUserConfigs
    /\ config \in [PrometheusEnabled : BOOLEAN]
    /\ fs \in InitialFileSystems
    /\ InitRest

\* InferTopology(uc)
InferTopologyCall ==
    /\ pc = "start"
    /\ \E order \in MapOrders(DOMAIN uc.Datacenters) :
         IF InferTopologyPanics(uc, order)
         THEN /\ pc' = "panicked"
              /\ UNCHANGED <<topology, err>>
         ELSE LET r == InferTopology(uc, order)
              IN  /\ topology' = r.topology
                  /\ err' = r.err
                  /\ pc' = IF r.err = Nil THEN "built" ELSE "failed"
    /\ UNCHANGED <<uc, config, leaders, visited, fs, run>>

\* t.LeaderIP(datacenter) for a datacenter of the topology
LeaderIPCall ==
    /\ pc = "built"
    /\ \E i \in 1..Len(topology.dcs) :
         LET d == topology.dcs[i].Name
             answer == IF LeaderIPPanics(topology, d) THEN <<"panic">>
                       ELSE LeaderIP(topology, d)
         IN  leaders' = [k \in (DOMAIN leaders) \cup {d} |->
                           (IF k \in DOMAIN leaders THEN leaders[k] ELSE {})
                           \cup (IF k = d THEN {answer} ELSE {})]
    /\ UNCHANGED <<uc, config, pc, topology, err, visited, fs, run>>

\* t.WalkSilent(f), f recording the name of each node it is handed
WalkSilentCall ==
    /\ pc = "built"
    /\ visited = Nil
    /\ visited' = LET nodes == Walk(topology) IN [i \in 1..Len(nodes) |-> nodes[i].Name]
    /\ UNCHANGED <<uc, config, pc, topology, err, leaders, fs, run>>

\* CommandGenerate.Run() is entered on the built topology: the flags are
\* parsed and, when verbose, the nodes are logged.
RunBegin ==
    /\ pc = "built"
    /\ IF run = Nil THEN TRUE ELSE run.step = "done"
    /\ \E verbose \in BOOLEAN :
         IF verbose /\ verboseLogPanics(topology)
         THEN run' = RunDone(RunStarted(run), Nil, TRUE)
         ELSE run' = RunStarted(run)
    /\ UNCHANGED <<uc, config, pc, topology, err, leaders, visited, fs>>

\* c.generateComposeFile() and what Run does with its result
GenerateComposeFile ==
    /\ run # Nil
    /\ run.step = "compose"
    /\ IF generateComposeFilePanics(topology)
       THEN run' = RunDone(run, Nil, TRUE) /\ UNCHANGED fs
       ELSE IF generateComposeFileFails(topology)
       THEN run' = RunDone(run, [kind |-> "render"], FALSE) /\ UNCHANGED fs
       ELSE LET body == composeInfo(config, topology)
            IN  \E io \in IOAnswers :
                  LET u == updateFileIfDifferent(fs, body, ComposePath, io)
                      r == Persisted(run, ComposePath, body, u)
                  IN  /\ fs' = u.fs
                      /\ run' = IF u.err # Nil THEN RunDone(r, u.err, FALSE)
                                ELSE IF ~config.PrometheusEnabled THEN RunDone(r, Nil, FALSE)
                                ELSE [r EXCEPT !.step = "prometheus"]
    /\ UNCHANGED <<uc, config, pc, topology, err, leaders, visited>>

\* c.generatePrometheusConfigFile() and what Run does with its result
GeneratePrometheusConfigFile ==
    /\ run # Nil
    /\ run.step = "prometheus"
    /\ IF generatePrometheusConfigFilePanics(topology)
       THEN run' = RunDone(run, Nil, TRUE) /\ UNCHANGED fs
       ELSE LET jobs == prometheusJobs(topology)
            IN  \E order \in MapOrders(DOMAIN jobs), io \in IOAnswers :
                  LET body == prometheusInfo(jobs, order)
                      u == updateFileIfDifferent(fs, body, PrometheusPath, io)
                      r == Persisted(run, PrometheusPath, body, u)
                  IN  /\ fs' = u.fs
                      /\ run' = IF u.err # Nil THEN RunDone(r, u.err, FALSE)
                                ELSE [r EXCEPT !.step = "grafana"]
    /\ UNCHANGED <<uc, config, pc, topology, err, leaders, visited>>

\* c.generateGrafanaConfigFiles(), after which Run returns
GenerateGrafanaConfigFiles ==
    /\ run # Nil
    /\ run.step = "grafana"
    /\ \E order \in MapOrders(GrafanaPaths), io \in [GrafanaPaths -> IOAnswers] :
         LET u == generateGrafanaConfigFiles(fs, order, io)
             r == [run EXCEPT !.wrote = @ \cup u.wrote,
                              !.produced = @ @@ u.produced]
         IN  /\ fs' = u.fs
             /\ run' = RunDone(r, u.err, FALSE)
    /\ UNCHANGED <<uc, config, pc, topology, err, leaders, visited>>

Next == InferTopologyCall \/ LeaderIPCall \/ WalkSilentCall

NextValidate == InferTopologyCall

NextGen ==
    \/ InferTopologyCall
    \/ RunBegin
    \/ GenerateComposeFile
    \/ GeneratePrometheusConfigFile
    \/ GenerateGrafanaConfigFiles

\* The topology and its query surface.
Spec == Init /\ [][Next]_vars

\* Validation of the configuration.
SpecValidate == InitValidate /\ [][NextValidate]_vars

\* Generation of the artifacts.
SpecGen == InitGen /\ [][NextGen]_vars

\* ------------------------------------------------------------------ claims

Built == pc = "built"

NodeNames == DOMAIN topology.nm

RECURSIVE TotalNodes(_)
TotalNodes(dm) ==
    IF DOMAIN dm = {} THEN 0
    ELSE LET d == CHOOSE d \in DOMAIN dm : TRUE
         IN  dm[d].Servers + dm[d].Clients
             + TotalNodes([k \in (DOMAIN dm) \ {d} |-> dm[k]])

ServerName(d, k) == d \o S_server \o Itoa(k)
ClientName(d, k) == d \o S_client \o Itoa(k)

\* C1: for every accepted configuration the node table holds exactly the sum
\* over the datacenters of servers + clients nodes, each under its own name;
\* the nodes of datacenter d are exactly d-server1..d-serverS and
\* d-client1..d-clientC; the servers list and the clients list together name
\* every node of the table exactly once, servers in the one, clients in the
\* other.
C1_NodeTable ==
    Built =>
      LET t == topology
          dm == uc.Datacenters
          names == all(t)
      IN  /\ Cardinality(NodeNames) = TotalNodes(dm)
          /\ \A k \in NodeNames : t.nm[k].Name = k
          /\ \A k \in NodeNames : t.nm[k].Datacenter \in DOMAIN dm
          /\ \A d \in DOMAIN dm :
               {k \in NodeNames : t.nm[k].Datacenter = d}
                 = {ServerName(d, i) : i \in 1..dm[d].Servers}
                   \cup {ClientName(d, i) : i \in 1..dm[d].Clients}
          /\ \A d \in DOMAIN dm :
               /\ \A i \in 1..dm[d].Servers : t.nm[ServerName(d, i)].Server
               /\ \A i \in 1..dm[d].Clients : ~t.nm[ClientName(d, i)].Server
          /\ Len(names) = Cardinality(NodeNames)
          /\ {names[i] : i \in 1..Len(names)} = NodeNames
          /\ \A i \in 1..Len(t.servers) : t.nm[t.servers[i]].Server
          /\ \A i \in 1..Len(t.clients) : ~t.nm[t.clients[i]].Server

\* A topology of two datacenters, one of them with two servers and two clients.
C1_Witness ==
    /\ Built
    /\ Len(topology.dcs) = 2
    /\ \E d \in DOMAIN uc.Datacenters :
         uc.Datacenters[d].Servers = 2 /\ uc.Datacenters[d].Clients = 2

\* C2: in a built topology with at most 9 servers and 9 clients per
\* datacenter, no two distinct nodes have the same IP address on the same
\* network; in particular no two nodes share a local IP.
C2_AddressesUnique ==
    (Built /\ \A d \in DOMAIN uc.Datacenters :
                uc.Datacenters[d].Servers <= 9 /\ uc.Datacenters[d].Clients <= 9)
    => \A n, m \in NodeNames :
         n # m =>
           LET a == topology.nm[n].Addresses
               b == topology.nm[m].Addresses
           IN  /\ \A i \in 1..Len(a), j \in 1..Len(b) :
                    a[i].Network = b[j].Network => a[i].IPAddress # b[j].IPAddress
               /\ LocalAddress(topology.nm[n]) # LocalAddress(topology.nm[m])

S_ip_dc1_server1 == <<"1", "0", ".", "0", ".", "1", ".", "1", "1">>
S_ip_dc1_client1 == <<"1", "0", ".", "0", ".", "1", ".", "2", "1">>
S_ip_dc1_client2 == <<"1", "0", ".", "0", ".", "1", ".", "2", "2">>
S_ip_dc2_server1 == <<"1", "0", ".", "0", ".", "2", ".", "1", "1">>
S_ip_dc2_client1 == <<"1", "0", ".", "0", ".", "2", ".", "2", "1">>
S_ip_dc2_client2 == <<"1", "0", ".", "0", ".", "2", ".", "2", "2">>

\* The spec {dc1:{servers:1,clients:2}, dc2:{servers:1,clients:2}}
ExampleDatacenters ==
    (S_dc1 :> [Servers |-> 1, Clients |-> 2]) @@ (S_dc2 :> [Servers |-> 1, Clients |-> 2])

C4_LocalAddress ==
    Built =>
      \A k \in NodeNames :
        LET n == topology.nm[k]
            net == IF topology.NetworkShape = NetworkShapeDual THEN n.Datacenter ELSE S_lan
        IN  /\ ~LocalAddressPanics(n)
            /\ \E i \in 1..Len(n.Addresses) :
                 n.Addresses[i].Network = net /\ n.Addresses[i].IPAddress = LocalAddress(n)
            /\ \A i \in 1..Len(n.Addresses) :
                 n.Addresses[i].Network = S_wan => n.Addresses[i].IPAddress # LocalAddress(n)

\* A dual-shape topology in which a server and a mesh gateway client have a
\* WAN address beside the local one.
C4_Witness ==
    /\ Built
    /\ topology.NetworkShape = NetworkShapeDual
    /\ \E k, l \in NodeNames :
         /\ topology.nm[k].Server /\ Len(topology.nm[k].Addresses) = 2
         /\ topology.nm[l].MeshGateway /\ Len(topology.nm[l].Addresses) = 2

\* C5: every answer LeaderIP gave for datacenter d, however often it was asked
\* and whatever was asked in between, is the local address of d-server1, a
\* server of d and the first of d's servers in construction order.
C5_Leader ==
    Built =>
      \A d \in DOMAIN leaders :
        LET first == ServerName(d, 1)
        IN  /\ first \in NodeNames
            /\ topology.nm[first].Server
            /\ topology.nm[first].Datacenter = d
            /\ \A i \in 1..Len(topology.servers) :
                 topology.nm[topology.servers[i]].Datacenter = d
                   => \E j \in 1..i : topology.servers[j] = first
            /\ leaders[d] = {LocalAddress(topology.nm[first])}

\* LeaderIP was asked for both of two datacenters, one of which has two
\* servers.
C5_Witness ==
    /\ Built
    /\ Cardinality(DOMAIN leaders) = 2
    /\ \E d \in DOMAIN leaders : uc.Datacenters[d].Servers = 2

Returned == pc \in {"built", "failed"}

\* InferTopology returned a configuration error and no topology.
Rejected == pc = "failed" /\ err # Nil /\ topology = Nil

\* InferTopology returned a topology and no error.
Accepted == pc = "built" /\ err = Nil /\ topology # Nil

\* "dc" followed by a numeral of a positive integer.
IsDCPositiveInteger(dc) ==
    /\ Len(dc) >= 3
    /\ dc[1] = "d"
    /\ dc[2] = "c"
    /\ \A i \in 3..Len(dc) : \E c \in 0..9 : dc[i] = Digits[c + 1]
    /\ \E i \in 3..Len(dc) : dc[i] # "0"

\* "dc" followed by decimal digits that denote an integer of the int range.
IsDCIntInRange(dc) ==
    /\ Len(dc) >= 3
    /\ dc[1] = "d"
    /\ dc[2] = "c"
    /\ \A i \in 3..Len(dc) : \E c \in 0..9 : dc[i] = Digits[c + 1]
    /\ LET z == StripZeros(SubSeq(dc, 3, Len(dc)))
       IN  Len(z) < 19 \/ (Len(z) = 19 /\ ~StrLess(MaxIntDigits, z))

\* The rules of the configuration, the name rule given as a parameter.
Invalid(NameOK(_)) ==
    \/ S_dc1 \notin DOMAIN uc.Datacenters
    \/ \E d \in DOMAIN uc.Datacenters : ~NameOK(d)
    \/ \E d \in DOMAIN uc.Datacenters :
         uc.Datacenters[d].Servers < 1 \/ uc.Datacenters[d].Clients < 1
    \/ uc.NetworkShape \notin {"dual", "flat", ""}

\* C6 as claimed: InferTopology returns a configuration error and no topology
\* exactly when dc1 is missing, or a name is not "dc" followed by a positive
\* integer, or a server or client count is below 1, or the shape is not
\* supported; for every other input it returns a topology and no error.
C6_ValidationPositiveInteger ==
    Returned => IF Invalid(IsDCPositiveInteger) THEN Rejected ELSE Accepted

\* C6 as amended: the same with the name rule "dc followed by one or more
\* decimal digits denoting an integer of the int range": dc0 and names with
\* leading zeros are accepted, a numeral beyond the int range is rejected.
C6_Validation ==
    Returned => IF Invalid(IsDCIntInRange) THEN Rejected ELSE Accepted

\* A configuration with dc0 was accepted.
C6_Witness ==
    /\ Accepted
    /\ S_dc0 \in DOMAIN uc.Datacenters

\* The file this run rendered for path, when it rendered one.
Rendered(path) == run # Nil /\ path \in DOMAIN run.produced

RunReturned == run # Nil /\ run.step = "done"

ComposeServices == run.produced[ComposePath].Services

\* The depends_on edges of the compose file: <<service, service it starts after>>.
ComposeEdges ==
    UNION {{<<ComposeServices[i].Name, ComposeServices[i].DependsOn[j]>> :
              j \in 1..Len(ComposeServices[i].DependsOn)} :
           i \in 1..Len(ComposeServices)}

AppName(n) == n.Name \o S_dash \o n.Service.Name

\* e leads from the application container of a node to the node's agent.
IsAppEdge(e) ==
    \E k \in NodeNames :
      LET n == topology.nm[k] IN n.Service # Nil /\ e = <<AppName(n), n.Name>>

\* e leads from the sidecar of a node to the node's application container.
IsSidecarEdge(e) ==
    \E k \in NodeNames :
      LET n == topology.nm[k]
      IN  n.Service # Nil /\ e = <<AppName(n) \o S_sidecar, AppName(n)>>

\* e leads from the mesh gateway container of a node to the node's agent.
IsGatewayEdge(e) ==
    \E k \in NodeNames :
      LET n == topology.nm[k]
      IN  n.MeshGateway /\ e = <<n.Name \o S_mesh_gateway, n.Name>>

\* e leads from a client's agent to the agent of a server of its datacenter.
IsClientAgentEdge(e) ==
    \E k, l \in NodeNames :
      LET n == topology.nm[k]
          m == topology.nm[l]
      IN  ~n.Server /\ m.Server /\ m.Datacenter = n.Datacenter /\ e = <<n.Name, m.Name>>

\* e leads from a node's agent to the node's own pod container.
IsPodEdge(e) == \E k \in NodeNames : e = <<k, k \o S_pod>>

\* Every edge the claim requires is in the graph, every edge leads to a
\* service of the manifest, and no server agent depends on a node's agent.
RequiredEdgesPresent ==
    /\ \A e \in ComposeEdges :
         \E i \in 1..Len(ComposeServices) : ComposeServices[i].Name = e[2]
    /\ \A k \in NodeNames :
         LET n == topology.nm[k]
         IN  /\ n.Service # Nil =>
                  /\ <<AppName(n), n.Name>> \in ComposeEdges
                  /\ <<AppName(n) \o S_sidecar, AppName(n)>> \in ComposeEdges
             /\ n.MeshGateway => <<n.Name \o S_mesh_gateway, n.Name>> \in ComposeEdges
             /\ ~n.Server =>
                  \E l \in NodeNames :
                    /\ topology.nm[l].Server
                    /\ topology.nm[l].Datacenter = n.Datacenter
                    /\ <<k, l>> \in ComposeEdges
             /\ n.Server => \A e \in ComposeEdges : e[1] = k => e[2] \notin NodeNames

\* What is left of the vertices after removing, again and again, those with
\* no edge into what is left: empty exactly when the graph has no cycle.
RECURSIVE CycleCore(_, _)
CycleCore(vertices, edges) ==
    LET sinks == {v \in vertices : ~\E e \in edges : e[1] = v /\ e[2] \in vertices}
    IN  IF sinks = {} THEN vertices ELSE CycleCore(vertices \ sinks, edges)

Acyclic(edges) ==
    CycleCore({e[1] : e \in edges} \cup {e[2] : e \in edges}, edges) = {}

\* C8 as claimed: the depends_on graph of a rendered compose file has the
\* application, sidecar, mesh gateway and client agent edges and no other
\* edge, and no cycle.
C8_ExactlyClaimedEdges ==
    Rendered(ComposePath) =>
      /\ RequiredEdgesPresent
      /\ \A e \in ComposeEdges :
           IsAppEdge(e) \/ IsSidecarEdge(e) \/ IsGatewayEdge(e) \/ IsClientAgentEdge(e)
      /\ Acyclic(ComposeEdges)

\* C8 as amended: the graph has those edges and, for every node, the edge
\* from its agent to its own pod container, no other edge, and no cycle.
C8_DependsOn ==
    Rendered(ComposePath) =>
      /\ RequiredEdgesPresent
      /\ \A k \in NodeNames : <<k, k \o S_pod>> \in ComposeEdges
      /\ \A e \in ComposeEdges :
           \/ IsAppEdge(e) \/ IsSidecarEdge(e) \/ IsGatewayEdge(e)
           \/ IsClientAgentEdge(e) \/ IsPodEdge(e)
      /\ Acyclic(ComposeEdges)

\* The compose file of a topology of two datacenters with a mesh gateway, an
\* application and two servers in one datacenter.
C8_Witness ==
    /\ Rendered(ComposePath)
    /\ Len(topology.dcs) = 2
    /\ \E k, l, m \in NodeNames :
         /\ topology.nm[k].MeshGateway
         /\ topology.nm[l].Service # Nil
         /\ topology.nm[m].Server /\ topology.nm[m].Index = 1

\* The jobs of the scrape configuration the run rendered.
PrometheusJobs == run.produced[PrometheusPath].Jobs

\* The names of the jobs node n is scraped under.
JobNamesOf(n) ==
    {(IF n.Server THEN S_consul_servers ELSE S_consul_clients) \o n.Datacenter}
    \cup (IF n.MeshGateway THEN {S_mesh_gateways \o n.Datacenter} ELSE {})
    \cup (IF n.Service # Nil THEN {n.Service.Name \o S_proxy} ELSE {})

\* C9: the rendered scrape configuration lists its jobs in strictly ascending
\* name order (so no name twice), each job's targets in ascending order and
\* its labels in ascending key order; every job a node is scraped under is
\* there, with as many targets as nodes are scraped under it, the node's own
\* agent target among them: the S servers of a datacenter d give one job
\* consul-servers-d with S targets.
C9_JobAggregation ==
    Rendered(PrometheusPath) =>
      LET jobs == PrometheusJobs
      IN  /\ \A i \in 1..(Len(jobs) - 1) : StrLess(jobs[i].Name, jobs[i + 1].Name)
          /\ \A i \in 1..Len(jobs) :
               /\ \A a \in 1..(Len(jobs[i].Targets) - 1) :
                    StrLeq(jobs[i].Targets[a], jobs[i].Targets[a + 1])
               /\ \A a \in 1..(Len(jobs[i].Labels) - 1) :
                    StrLess(jobs[i].Labels[a].Key, jobs[i].Labels[a + 1].Key)
               /\ Len(jobs[i].Targets)
                    = Cardinality({k \in NodeNames : jobs[i].Name \in JobNamesOf(topology.nm[k])})
          /\ \A k \in NodeNames :
               LET n == topology.nm[k]
               IN  /\ \A name \in JobNamesOf(n) : \E i \in 1..Len(jobs) : jobs[i].Name = name
                   /\ \E i \in 1..Len(jobs) :
                        /\ jobs[i].Name = (IF n.Server THEN S_consul_servers
                                           ELSE S_consul_clients) \o n.Datacenter
                        /\ \E a \in 1..Len(jobs[i].Targets) :
                             jobs[i].Targets[a] = LocalAddress(n) \o S_8500
          /\ \A d \in DOMAIN uc.Datacenters :
               \E i \in 1..Len(jobs) :
                 /\ jobs[i].Name = S_consul_servers \o d
                 /\ Len(jobs[i].Targets) = uc.Datacenters[d].Servers

\* The scrape configuration of a topology of two datacenters, two servers in
\* dc1, and a mesh gateway.
C9_Witness ==
    /\ Rendered(PrometheusPath)
    /\ Len(topology.dcs) = 2
    /\ uc.Datacenters[S_dc1].Servers = 2
    /\ \E k \in NodeNames : topology.nm[k].MeshGateway

\* C10: WalkSilent (and Walk, which hands out the same nodes) visits every
\* node exactly once; of two nodes visited one after the other, either the
\* first is a server and the second a client, or both have the same role and
\* the first is of a datacenter with the smaller name, or of the same
\* datacenter with the smaller index.  The configuration thus fixes the order,
\* whatever order its datacenter map was enumerated in.
C10_WalkOrder ==
    (Built /\ visited # Nil) =>
      /\ Len(visited) = Cardinality(NodeNames)
      /\ {visited[i] : i \in 1..Len(visited)} = NodeNames
      /\ visited = [i \in 1..Len(visited) |-> Walk(topology)[i].Name]
      /\ \A i \in 1..(Len(visited) - 1) :
           LET a == topology.nm[visited[i]]
               b == topology.nm[visited[i + 1]]
           IN  \/ a.Server /\ ~b.Server
               \/ /\ a.Server = b.Server
                  /\ \/ StrLess(a.Datacenter, b.Datacenter)
                     \/ a.Datacenter = b.Datacenter /\ a.Index + 1 = b.Index
      /\ \A d \in DOMAIN uc.Datacenters :
           \E i \in 1..Len(visited) :
             /\ topology.nm[visited[i]].Server
             /\ topology.nm[visited[i]].Datacenter = d
             /\ topology.nm[visited[i]].Index = 0
             /\ \A j \in 1..uc.Datacenters[d].Servers :
                  visited[i + j - 1] = ServerName(d, j)

\* The walk of a topology of the datacenters dc1 and dc01, two servers in one
\* of them.
C10_Witness ==
    /\ Built
    /\ visited # Nil
    /\ DOMAIN uc.Datacenters = {S_dc1, S_dc01}
    /\ \E d \in DOMAIN uc.Datacenters : uc.Datacenters[d].Servers = 2

\* The error kinds the claimed order of the checks allows for uc: those of
\* the first rule uc violates, the rules taken as primary datacenter, names,
\* counts, shape.
ClaimedErrorKinds ==
    IF S_dc1 \notin DOMAIN uc.Datacenters THEN {"primary datacenter missing"}
    ELSE IF \E d \in DOMAIN uc.Datacenters : ~IsDCIntInRange(d) THEN {"invalid name"}
    ELSE IF \E d \in DOMAIN uc.Datacenters :
              uc.Datacenters[d].Servers < 1 \/ uc.Datacenters[d].Clients < 1
    THEN {"no server", "no client"}
    ELSE {"unknown network_shape"}

\* C11 as claimed: the error InferTopology returns is that of the first rule
\* the configuration violates in the order primary datacenter, names, counts,
\* shape, and so is fixed by the configuration.
C11_ClaimedOrder == Rejected => err.kind \in ClaimedErrorKinds

C13_NodeRoles ==
    Built =>
      \A k \in NodeNames :
        LET n == topology.nm[k]
        IN  \/ n.Server /\ n.Service = Nil /\ ~n.MeshGateway
            \/ ~n.Server /\ n.Service # Nil /\ ~n.MeshGateway
            \/ ~n.Server /\ n.Service = Nil /\ n.MeshGateway

\* A topology with a mesh gateway client and a plain client, built from an
\* override table that has a mesh gateway entry under the name of a server.
C13_Witness ==
    /\ Built
    /\ ServerName(S_dc1, 1) \in DOMAIN uc.NodeConfig
    /\ uc.NodeConfig[ServerName(S_dc1, 1)].MeshGateway
    /\ \E k, l \in NodeNames :
         topology.nm[k].MeshGateway /\ topology.nm[l].Service # Nil

\* The positions of the node's addresses on "wan".
WANAddresses(n) == {i \in 1..Len(n.Addresses) : n.Addresses[i].Network = S_wan}

\* C14: under the dual shape a server or mesh gateway client has exactly one
\* address on "wan", 10.1.<index of its datacenter>.<suffix of its local IP>,
\* and a plain client has none; under the flat shape every node has one
\* address only, on "lan".
C14_WANAllocation ==
    Built =>
      \A k \in NodeNames :
        LET n == topology.nm[k]
            index == Itoa(Atoi(DCDigits(n.Datacenter)))
            localPrefix == S_10_0 \o index \o S_dot
            local == LocalAddress(n)
            suffix == SubSeq(local, Len(localPrefix) + 1, Len(local))
        IN  IF topology.NetworkShape = NetworkShapeDual
            THEN /\ Cardinality(WANAddresses(n))
                      = IF n.Server \/ n.MeshGateway THEN 1 ELSE 0
                 /\ SubSeq(local, 1, Len(localPrefix)) = localPrefix
                 /\ \A i \in WANAddresses(n) :
                      n.Addresses[i].IPAddress = S_10_1 \o index \o S_dot \o suffix
                 /\ (n.Server \/ n.MeshGateway) =>
                      /\ ~PublicAddressPanics(n)
                      /\ PublicAddress(n) = S_10_1 \o index \o S_dot \o suffix
            ELSE /\ WANAddresses(n) = {}
                 /\ Len(n.Addresses) = 1
                 /\ n.Addresses[1].Network = S_lan

\* A dual-shape topology with the datacenter dc01, a mesh gateway client with
\* a WAN address and a plain client without.
C14_Witness ==
    /\ Built
    /\ topology.NetworkShape = NetworkShapeDual
    /\ S_dc01 \in DOMAIN uc.Datacenters
    /\ \E k, l \in NodeNames :
         /\ topology.nm[k].MeshGateway /\ WANAddresses(topology.nm[k]) # {}
         /\ topology.nm[l].Service # Nil /\ WANAddresses(topology.nm[l]) = {}

\* No artifact has been written since the start: every path is as the
\* initial file system had it.
NothingWritten == fs \in InitialFileSystems

JobDC(j) == j.Labels[CHOOSE a \in 1..Len(j.Labels) : j.Labels[a].Key = S_dc].Val

\* C16: every target of every job of the rendered scrape configuration is the
\* local address, with the agent or the proxy port, of a node of the
\* datacenter the job's dc label names.
C16_TargetsOfLabelledDC ==
    Rendered(PrometheusPath) =>
      \A i \in 1..Len(PrometheusJobs) :
        LET j == PrometheusJobs[i]
        IN  \A a \in 1..Len(j.Targets) :
              \E k \in NodeNames :
                /\ topology.nm[k].Datacenter = JobDC(j)
                /\ j.Targets[a] \in {LocalAddress(topology.nm[k]) \o S_8500,
                                    LocalAddress(topology.nm[k]) \o S_9102}

====
